---- MODULE Spec2Model ----
(***************************************************************************)
(* The filter registry and the filter dispatcher of package expressions    *)
(* (DefineFilter, makeFilter and the closure makeFilter returns), and the  *)
(* render.Config wrapper around the per-engine filter table                *)
(* (NewConfig, Config.AddFilter).                                          *)
(***************************************************************************)
EXTENDS Integers, Sequences, FiniteSets, TLC

VARIABLES
    filters,     \* var filters = map[string]interface{}{}: name -> registered fn
    defined,     \* history: name -> the fn of the latest successful DefineFilter
    lastDefine,  \* history: the latest DefineFilter call and whether it panicked
    closures,    \* the valueFn closures makeFilter has returned, in build order
    lastBuild,   \* history: the latest makeFilter call and its outcome
    stack,       \* per render: the closure invocations in progress (innermost first)
    res,         \* per render: where the render stands, and its result or panic value
    cx,          \* per render: the Context the render evaluates against
    last,        \* history, per render: the closure invocation that finished last
    heap,        \* the Go maps allocated by NewConfig: reference -> map contents
    cfgs,        \* the render.Config values the callers hold
    lastAdd      \* history: the latest Config.AddFilter call

vars == <<filters, defined, lastDefine, closures, lastBuild, stack, res, cx, last,
         heap, cfgs, lastAdd>>

(***************************************************************************)
(* Bounds of the model.                                                    *)
(***************************************************************************)
MaxParams == 2
MaxClosures == 2
NumRenders == 2
MaxConfigs == 2

Renders == 1..NumRenders

Names == {"f", "g"}

(***************************************************************************)
(* Values.  Every runtime value, error and panic value is a record         *)
(* [t, v, e, x]: t the dynamic type, v the payload (bytes or message),     *)
(* and for a closure{expr, ctx} value e the expression and x the context.  *)
(***************************************************************************)
NoExpr == [k |-> "none", s |-> ""]

Lit(s) == [k |-> "lit", s |-> s]

Var(s) == [k |-> "var", s |-> s]

V(t, v) == [t |-> t, v |-> v, e |-> NoExpr, x |-> ""]

Nil == V("nil", "")

closure(expr, ctx) == [t |-> "closure", v |-> "", e |-> expr, x |-> ctx]

InterpreterError(msg) == V("InterpreterError", msg)

GenericError(msg) == V("GenericError", msg)

UndefinedFilter(name) == V("UndefinedFilter", name)

FilterArityError(name) == V("FilterArityError", name)

ParseError(src) == V("ParseError", src)

TypeAssertionError == V("runtime.TypeAssertionError", "interface conversion: not string")

IndexError == V("runtime.Error", "index out of range")

PanicNilError == V("runtime.PanicNilError", "panic called with nil argument")

OtherError == V("errors.errorString", "boom")

Messages == {"divided by zero", "invalid date"}

(***************************************************************************)
(* Expressions, their source text, the parser and the evaluator.           *)
(***************************************************************************)
Exprs == {Lit("weight"), Var("k")}

ParseUniverse == {Lit("weight"), Var("weight"), Var("k"), Var("size")}

Source(expr) == IF expr.k = "lit" THEN "'" \o expr.s \o "'" ELSE expr.s

Parse(src) ==
    IF \E p \in ParseUniverse : Source(p) = src
    THEN [ok |-> TRUE, expr |-> CHOOSE p \in ParseUniverse : Source(p) = src,
          err |-> Nil]
    ELSE [ok |-> FALSE, expr |-> NoExpr, err |-> ParseError(src)]

Contexts == {"c1", "c2", "c3"}

Bindings(ctx) ==
    CASE ctx = "c1" -> [k |-> V("string", "size"), weight |-> V("int", "3")]
      [] ctx = "c2" -> [k |-> V("string", "1 +"), weight |-> V("int", "5")]
      [] OTHER      -> [weight |-> V("int", "1")]

Get(ctx, name) ==
    IF name \in DOMAIN Bindings(ctx) THEN Bindings(ctx)[name] ELSE Nil

Evaluate(expr, ctx) ==
    IF expr.k = "lit" THEN V("string", expr.s) ELSE Get(ctx, expr.s)

(***************************************************************************)
(* The values DefineFilter is called with, as reflect sees them: whether   *)
(* the value is a func, the types of its inputs (In(0) is the filter's     *)
(* input value) and the number of its outputs; req is the number of        *)
(* required parameters after the input value.                              *)
(***************************************************************************)
FnTable ==
    [notfn |-> [func |-> FALSE, ins |-> << >>, outs |-> 0, req |-> 0],
     in0   |-> [func |-> TRUE, ins |-> << >>, outs |-> 1, req |-> 0],
     out3  |-> [func |-> TRUE, ins |-> <<"any">>, outs |-> 3, req |-> 0],
     out0  |-> [func |-> TRUE, ins |-> <<"any">>, outs |-> 0, req |-> 0],
     opt   |-> [func |-> TRUE, ins |-> <<"any", "string">>, outs |-> 2, req |-> 0],
     clo   |-> [func |-> TRUE, ins |-> <<"any", "closure">>, outs |-> 1, req |-> 1]]

Fns == DOMAIN FnTable

IsFunc(fn) == FnTable[fn].func

NumIn(fn) == Len(FnTable[fn].ins)

NumOut(fn) == FnTable[fn].outs

In(fn, i) == FnTable[fn].ins[i + 1]

Required(fn) == FnTable[fn].req

Optional(fn) == NumIn(fn) - 1 - Required(fn)

ClosureConvertibleTo(t) == t \in {"any", "closure"}

InterfaceConvertibleTo(t) == t = "any"

isClosureInterfaceType(t) == ClosureConvertibleTo(t) /\ ~InterfaceConvertibleTo(t)

(***************************************************************************)
(* DefineFilter (the process-wide registry).                               *)
(***************************************************************************)
NoDefine == [name |-> "", fn |-> "", panic |-> ""]

\* the switch of DefineFilter: the message it panics with, "" when it does not
DefineFilterPanic(fn) ==
    CASE ~IsFunc(fn)    -> "a filter must be a function"
      [] NumIn(fn) < 1  -> "a filter function must have at least one input"
      [] NumOut(fn) > 2 -> "a filter must be have one or two outputs"
      [] OTHER          -> ""

\* filters[name] = fn
Register(reg, name, fn) ==
    [n \in DOMAIN reg \cup {name} |-> IF n = name THEN fn ELSE reg[n]]

DefineFilter(name, fn) ==
    /\ lastDefine' = [name |-> name, fn |-> fn, panic |-> DefineFilterPanic(fn)]
    /\ IF DefineFilterPanic(fn) # ""
       THEN UNCHANGED <<filters, defined>>
       ELSE /\ filters' = Register(filters, name, fn)
            /\ defined' = [defined EXCEPT ![name] = fn]
    /\ UNCHANGED <<closures, lastBuild, stack, res, cx, last, heap, cfgs, lastAdd>>

(***************************************************************************)
(* makeFilter: the lookup and the construction of the closure.             *)
(***************************************************************************)
NoBuild == [name |-> "", err |-> Nil, built |-> FALSE, registered |-> FALSE]

ExprInput(expr) == [k |-> "expr", e |-> expr, c |-> 0]

ClosureInput(c) == [k |-> "closure", e |-> NoExpr, c |-> c]

\* a lookup that never misses: the miss is left to the invocation (a faulty variant of
\* LookupFilter)
LookupFilterDeferred(name) ==
    [ok |-> TRUE, fn |-> IF name \in DOMAIN filters THEN filters[name] ELSE "out0"]

\* fn, ok := filters[name]
LookupFilter(name) ==
    [ok |-> name \in DOMAIN filters,
     fn |-> IF name \in DOMAIN filters THEN filters[name] ELSE ""]

MakeFilter(f, name, params) ==
    /\ f.k = "closure" => f.c \in 1..Len(closures)
    /\ LET found == LookupFilter(name) IN
       IF ~found.ok
       THEN /\ lastBuild' = [name |-> name, err |-> UndefinedFilter(name),
                             built |-> FALSE, registered |-> defined[name] # ""]
            /\ UNCHANGED closures
       ELSE /\ Len(closures) < MaxClosures
            /\ closures' = Append(closures,
                   [name |-> name, fr |-> found.fn, f |-> f, params |-> params,
                    bound |-> defined[name]])
            /\ lastBuild' = [name |-> name, err |-> Nil, built |-> TRUE,
                             registered |-> defined[name] # ""]
    /\ UNCHANGED <<filters, defined, lastDefine, stack, res, cx, last, heap, cfgs, lastAdd>>

(***************************************************************************)
(* The closure makeFilter returns: one invocation is a frame that collects *)
(* args, calls the bound function and returns or panics through the        *)
(* deferred recover.                                                       *)
(***************************************************************************)
NewFrame(c) == [c |-> c, args |-> << >>, i |-> 1, ev |-> << >>]

NoOutcome == [k |-> "none", val |-> Nil]

Ret(v) == [k |-> "ret", val |-> v]

Err(v) == [k |-> "err", val |-> v]

Pan(v) == [k |-> "panic", val |-> v]

NoLast ==
    [c |-> 0, fn |-> "", args |-> << >>, ev |-> << >>, called |-> FALSE,
     body |-> NoOutcome, threw |-> FALSE, raised |-> Nil, st |-> "none", out |-> Nil]

Idle == [st |-> "idle", val |-> Nil]

RetValues == {V("[]byte", "hi"), V("string", "hi"), V("int", "7"), Nil}

RaisedValues == {GenericError(m) : m \in Messages} \cup {OtherError}

\* What the body of a registered function may do when it is invoked: return a
\* value (and a nil error), return an error as its second output, or panic.
\* panic(nil) makes recover() return nil with toolchains before Go 1.21 and
\* a *runtime.PanicNilError with later ones.
BodyOutcomes(fn) ==
    {Pan(v) : v \in RaisedValues \cup {Nil, PanicNilError}}
    \cup (IF NumOut(fn) >= 1 THEN {Ret(v) : v \in RetValues} ELSE {Ret(Nil)})
    \cup (IF NumOut(fn) = 2 THEN {Err(v) : v \in RaisedValues} ELSE {})

ArityOK(fn, nargs) ==
    /\ Required(fn) <= nargs
    /\ nargs <= Required(fn) + Optional(fn)

\* generics.Call(fr, args): the arity check, then the body; o is what the body does
GenericsCall(fn, name, args, o) ==
    IF ~ArityOK(fn, Len(args) - 1) THEN Err(FilterArityError(name))
    ELSE IF o.k = "ret" /\ NumOut(fn) = 0 THEN Pan(IndexError)
    ELSE o

\* the switch on out's type, with the []byte case left out (a faulty variant of Convert)
ConvertNothing(out) == out

\* switch out := out.(type) { case []byte: return string(out); default: return out }
Convert(out) == IF out.t = "[]byte" THEN V("string", out.v) ELSE out

\* the error result of generics.Call dropped (a faulty variant of AfterCall)
AfterCallIgnoreErr(cr) ==
    CASE cr.k = "err"   -> [k |-> "return", val |-> Nil]
      [] cr.k = "panic" -> [k |-> "panic", val |-> cr.val]
      [] OTHER          -> [k |-> "return", val |-> Convert(cr.val)]

\* if err != nil { panic(err) }, then the conversion of out
AfterCall(cr) ==
    CASE cr.k = "err"   -> [k |-> "panic", val |-> cr.val]
      [] cr.k = "panic" -> [k |-> "panic", val |-> cr.val]
      [] OTHER          -> [k |-> "return", val |-> Convert(cr.val)]

\* the deferred function: rv is what recover() returns.  With rv = nil the body
\* of the if is skipped, the panic has been recovered and the closure returns
\* the zero value of its result.
RecoverHandler(rv) ==
    IF rv = Nil THEN [k |-> "return", val |-> Nil]
    ELSE IF rv.t = "GenericError" THEN [k |-> "panic", val |-> InterpreterError(rv.v)]
    ELSE [k |-> "panic", val |-> rv]

\* the function the closure calls, looked up again by name at the call (a faulty variant
\* of BoundFn)
BoundFnLate(cl) == IF cl.name \in DOMAIN filters THEN filters[cl.name] ELSE cl.fr

\* fr, captured by the closure when makeFilter built it
BoundFn(cl) == cl.fr

\* the argument put in front of the ones collected so far (a faulty variant of PushArg)
PushArgFront(args, v) == <<v>> \o args

\* args = append(args, v)
PushArg(args, v) == Append(args, v)

\* the closure argument parsed from the parameter's source text, the parameter
\* not evaluated (a faulty variant of ClosureArg)
ClosureArgFromSource(param, ctx) ==
    LET p == Parse(Source(param)) IN
    IF ~p.ok THEN [ok |-> FALSE, val |-> p.err]
    ELSE [ok |-> TRUE, val |-> closure(p.expr, ctx)]

\* expr, err := Parse(param(ctx).(string)); closure{expr, ctx}
ClosureArg(param, ctx) ==
    LET v == Evaluate(param, ctx) IN
    IF v.t # "string" THEN [ok |-> FALSE, val |-> TypeAssertionError]
    ELSE LET p == Parse(v.v) IN
         IF ~p.ok THEN [ok |-> FALSE, val |-> p.err]
         ELSE [ok |-> TRUE, val |-> closure(p.expr, ctx)]

\* one iteration of the loop over params: i is the 1-based index of the parameter
ParamArg(fn, i, param, ctx) ==
    IF i < NumIn(fn) /\ isClosureInterfaceType(In(fn, i))
    THEN ClosureArg(param, ctx)
    ELSE [ok |-> TRUE, val |-> Evaluate(param, ctx)]

Top(r) == Head(stack[r])

\* the closure registering its bound function under an alias of its name when
\* it is invoked (a faulty variant of InvokeRegistry)
InvokeRegistryAlias(cl) == filters' = Register(filters, cl.name \o "'", cl.fr)

\* what invoking the closure does to the registry: nothing, it calls fr
InvokeRegistry(cl) == UNCHANGED filters

\* the innermost invocation returns v: to the invocation whose input it is, or
\* to the render
Deliver(r, v) ==
    IF Len(stack[r]) = 1
    THEN /\ stack' = [stack EXCEPT ![r] = << >>]
         /\ res' = [res EXCEPT ![r] = [st |-> "returned", val |-> v]]
    ELSE /\ stack' = [stack EXCEPT ![r] =
                <<[stack[r][2] EXCEPT !.args = PushArg(<< >>, v), !.ev = <<0>>]>>
                \o SubSeq(stack[r], 3, Len(stack[r]))]
         /\ UNCHANGED res

\* a render starts invoking closure c against context ctx
Render(r, c, ctx) ==
    /\ res[r].st \in {"idle", "returned", "panicked"}
    /\ c \in 1..Len(closures)
    /\ stack' = [stack EXCEPT ![r] = <<NewFrame(c)>>]
    /\ res' = [res EXCEPT ![r] = [st |-> "running", val |-> Nil]]
    /\ cx' = [cx EXCEPT ![r] = ctx]
    /\ last' = [last EXCEPT ![r] = NoLast]
    /\ UNCHANGED <<filters, defined, lastDefine, closures, lastBuild, heap, cfgs, lastAdd>>

\* args := []interface{}{f(ctx)}
EvalInput(r) ==
    /\ res[r].st = "running"
    /\ Top(r).args = << >>
    /\ LET cl == closures[Top(r).c] IN
       IF cl.f.k = "expr"
       THEN stack' = [stack EXCEPT ![r][1].args = PushArg(<< >>, Evaluate(cl.f.e, cx[r])),
                                   ![r][1].ev = <<0>>]
       ELSE stack' = [stack EXCEPT ![r] = <<NewFrame(cl.f.c)>> \o stack[r]]
    /\ UNCHANGED <<filters, defined, lastDefine, closures, lastBuild, res, cx, last,
                   heap, cfgs, lastAdd>>

\* for i, param := range params { ... }
EvalParam(r) ==
    /\ res[r].st = "running"
    /\ Top(r).args # << >>
    /\ Top(r).i <= Len(closures[Top(r).c].params)
    /\ LET fr == Top(r)
           cl == closures[fr.c]
           a  == ParamArg(BoundFn(cl), fr.i, cl.params[fr.i], cx[r])
           ev == Append(fr.ev, fr.i)
       IN IF a.ok
          THEN /\ stack' = [stack EXCEPT ![r][1] =
                      [fr EXCEPT !.args = PushArg(fr.args, a.val), !.i = fr.i + 1,
                                 !.ev = ev]]
               /\ UNCHANGED <<res, last>>
          ELSE /\ stack' = [stack EXCEPT ![r][1].ev = ev]
               /\ res' = [res EXCEPT ![r] = [st |-> "panicking", val |-> a.val]]
               /\ last' = [last EXCEPT ![r] =
                      [NoLast EXCEPT !.c = fr.c, !.args = fr.args, !.ev = ev,
                                     !.threw = TRUE, !.raised = a.val, !.st = "raised"]]
    /\ UNCHANGED <<filters, defined, lastDefine, closures, lastBuild, cx, heap, cfgs, lastAdd>>

\* out, err := generics.Call(fr, args) and what follows it
Call(r, o) ==
    /\ res[r].st = "running"
    /\ Top(r).args # << >>
    /\ Top(r).i > Len(closures[Top(r).c].params)
    /\ LET fr == Top(r)
           cl == closures[fr.c]
           fn == BoundFn(cl)
           invoked == ArityOK(fn, Len(fr.args) - 1)
           ac == AfterCall(GenericsCall(fn, cl.name, fr.args, o))
           rec == [NoLast EXCEPT !.c = fr.c, !.fn = fn, !.args = fr.args, !.ev = fr.ev,
                                  !.called = invoked, !.body = o]
       IN /\ o \in (IF invoked THEN BodyOutcomes(fn) ELSE {NoOutcome})
          /\ IF ac.k = "return"
             THEN /\ Deliver(r, ac.val)
                  /\ last' = [last EXCEPT ![r] =
                         [rec EXCEPT !.st = "returned", !.out = ac.val]]
             ELSE /\ res' = [res EXCEPT ![r] = [st |-> "panicking", val |-> ac.val]]
                  /\ last' = [last EXCEPT ![r] =
                         [rec EXCEPT !.threw = TRUE, !.raised = ac.val, !.st = "raised"]]
                  /\ UNCHANGED stack
          /\ InvokeRegistry(cl)
    /\ UNCHANGED <<defined, lastDefine, closures, lastBuild, cx, heap, cfgs, lastAdd>>

\* defer func() { if r := recover(); r != nil { ... } }() of the innermost
\* invocation, run while a panic unwinds it
Recover(r) ==
    /\ res[r].st = "panicking"
    /\ LET fr == Top(r)
           h == RecoverHandler(res[r].val)
           rec == IF last[r].c = fr.c THEN last[r]
                  ELSE [NoLast EXCEPT !.c = fr.c, !.args = fr.args, !.ev = fr.ev,
                                      !.threw = TRUE, !.raised = res[r].val]
       IN IF h.k = "return"
          THEN /\ IF Len(stack[r]) = 1
                  THEN /\ stack' = [stack EXCEPT ![r] = << >>]
                       /\ res' = [res EXCEPT ![r] = [st |-> "returned", val |-> h.val]]
                  ELSE /\ stack' = [stack EXCEPT ![r] =
                              <<[stack[r][2] EXCEPT !.args = PushArg(<< >>, h.val),
                                                    !.ev = <<0>>]>>
                              \o SubSeq(stack[r], 3, Len(stack[r]))]
                       /\ res' = [res EXCEPT ![r] = [st |-> "running", val |-> Nil]]
               /\ last' = [last EXCEPT ![r] =
                      [rec EXCEPT !.st = "returned", !.out = h.val]]
          ELSE /\ stack' = [stack EXCEPT ![r] = Tail(stack[r])]
               /\ res' = [res EXCEPT ![r] =
                      [st |-> IF Len(stack[r]) = 1 THEN "panicked" ELSE "panicking",
                       val |-> h.val]]
               /\ last' = [last EXCEPT ![r] =
                      [rec EXCEPT !.st = "panicked", !.out = h.val]]
    /\ UNCHANGED <<filters, defined, lastDefine, closures, lastBuild, cx, heap, cfgs, lastAdd>>

(***************************************************************************)
(* render.Config.  A Config value holds references to its tables; heap     *)
(* gives the contents of every table allocated so far.                     *)
(***************************************************************************)
EmptyMap == [n \in {} |-> ""]

NoAdd == [i |-> 0, name |-> "", fn |-> ""]

\* the functions AddFilter is called with
ConfigFns == {fn \in Fns : DefineFilterPanic(fn) = ""}

\* expression.NewConfig(): a Config with its filter table, allocated at ref
ExpressionNewConfig(ref) == [filters |-> ref]

\* expression.Config.AddFilter: c's filter table gets name -> fn
ExpressionAddFilter(h, c, name, fn) ==
    [heap |-> [h EXCEPT ![c.filters] = Register(h[c.filters], name, fn)], Config |-> c]

NewConfig ==
    /\ Len(cfgs) < MaxConfigs
    /\ LET n == Len(heap) IN
       /\ heap' = heap \o <<EmptyMap, EmptyMap, EmptyMap>>
       /\ cfgs' = Append(cfgs, [Config |-> ExpressionNewConfig(n + 1), Filename |-> "",
                                tags |-> n + 2, blockDefs |-> n + 3])
    /\ UNCHANGED <<filters, defined, lastDefine, closures, lastBuild, stack, res, cx,
                   last, lastAdd>>

\* the filter added to a Config created for the call, not to s's (a faulty variant of
\* ConfigAddFilter)
ConfigAddFilterFresh(h, s, name, fn) ==
    LET fresh == ExpressionNewConfig(Len(h) + 1)
        e == ExpressionAddFilter(Append(h, EmptyMap), fresh, name, fn)
    IN [heap |-> e.heap, s |-> [s EXCEPT !.Config = e.Config]]

\* the body of AddFilter, run on s, the receiver: s.Config.AddFilter(name, fn)
ConfigAddFilter(h, s, name, fn) ==
    LET e == ExpressionAddFilter(h, s.Config, name, fn)
    IN [heap |-> e.heap, s |-> [s EXCEPT !.Config = e.Config]]

\* func (s Config) AddFilter: the receiver is a copy of the caller's value, so
\* the caller's Config keeps its fields whatever the body does to s
AddFilter(i, name, fn) ==
    /\ i \in 1..Len(cfgs)
    /\ heap' = ConfigAddFilter(heap, cfgs[i], name, fn).heap
    /\ lastAdd' = [i |-> i, name |-> name, fn |-> fn]
    /\ UNCHANGED <<filters, defined, lastDefine, closures, lastBuild, stack, res, cx,
                   last, cfgs>>

(***************************************************************************)
(* Specifications.                                                         *)
(***************************************************************************)
Init ==
    /\ filters = EmptyMap
    /\ defined = [n \in Names |-> ""]
    /\ lastDefine = NoDefine
    /\ closures = << >>
    /\ lastBuild = NoBuild
    /\ stack = [r \in Renders |-> << >>]
    /\ res = [r \in Renders |-> Idle]
    /\ cx = [r \in Renders |-> "c1"]
    /\ last = [r \in Renders |-> NoLast]
    /\ heap = << >>
    /\ cfgs = << >>
    /\ lastAdd = NoAdd

\* Spec: the registry's life.  Filters are defined and redefined, applied
\* without parameters (e | f | g) and rendered by one render.
LifeFns == {"notfn", "opt", "clo"}

LifeInputs == {ExprInput(Var("weight"))} \cup {ClosureInput(c) : c \in 1..MaxClosures}

LifeOutcomes == {NoOutcome, Ret(V("string", "hi")), Pan(OtherError)}

Next ==
    \/ \E name \in Names, fn \in LifeFns : DefineFilter(name, fn)
    \/ \E f \in LifeInputs, name \in Names : MakeFilter(f, name, << >>)
    \/ \E c \in 1..MaxClosures : Render(1, c, "c1")
    \/ EvalInput(1)
    \/ \E o \in LifeOutcomes : Call(1, o)
    \/ Recover(1)

Spec == Init /\ [][Next]_vars

\* SpecRegistry: DefineFilter called with every kind of value.
NextRegistry == \E name \in Names, fn \in Fns : DefineFilter(name, fn)

SpecRegistry == Init /\ [][NextRegistry]_vars

\* SpecDispatch: the registry as the registrations at start-up leave it (the
\* filters package's DefineStandardFilters, run from init), one
\* filter chain weight | f1: ... | f2: ... built inside out, and one render.
StandardFilters == [f |-> "opt", g |-> "clo"]

InitDispatch ==
    /\ filters = StandardFilters
    /\ defined = StandardFilters
    /\ lastDefine = [name |-> "g", fn |-> "clo", panic |-> ""]
    /\ closures = << >>
    /\ lastBuild = NoBuild
    /\ stack = [r \in Renders |-> << >>]
    /\ res = [r \in Renders |-> Idle]
    /\ cx = [r \in Renders |-> "c1"]
    /\ last = [r \in Renders |-> NoLast]
    /\ heap = << >>
    /\ cfgs = << >>
    /\ lastAdd = NoAdd

\* the parameter lists of a filter application: the first parameter any
\* expression, the later ones literals
ParamLists ==
    {<< >>} \cup
    {<<e>> \o [j \in 1..m |-> Lit("weight")] : e \in Exprs, m \in 0..(MaxParams - 1)}

ChainInput ==
    IF closures = << >> THEN ExprInput(Var("weight")) ELSE ClosureInput(Len(closures))

Outcomes == UNION {BodyOutcomes(fn) : fn \in Fns} \cup {NoOutcome}

NextDispatch ==
    \/ \E name \in Names, params \in ParamLists : MakeFilter(ChainInput, name, params)
    \/ \E c \in 1..MaxClosures, ctx \in Contexts : Render(1, c, ctx)
    \/ EvalInput(1)
    \/ EvalParam(1)
    \/ \E o \in Outcomes : Call(1, o)
    \/ Recover(1)

SpecDispatch == InitDispatch /\ [][NextDispatch]_vars

\* SpecConc: the chain weight | f: k | g: 'weight' built, and NumRenders
\* renders invoking its closures concurrently, their steps interleaved.
BuiltChain ==
    <<[name |-> "f", fr |-> "opt", f |-> ExprInput(Var("weight")),
       params |-> <<Var("k")>>, bound |-> "opt"],
      [name |-> "g", fr |-> "clo", f |-> ClosureInput(1),
       params |-> <<Lit("weight")>>, bound |-> "clo"]>>

InitConc ==
    /\ filters = StandardFilters
    /\ defined = StandardFilters
    /\ lastDefine = [name |-> "g", fn |-> "clo", panic |-> ""]
    /\ closures = BuiltChain
    /\ lastBuild = [name |-> "g", err |-> Nil, built |-> TRUE, registered |-> TRUE]
    /\ stack = [r \in Renders |-> << >>]
    /\ res = [r \in Renders |-> Idle]
    /\ cx = [r \in Renders |-> "c1"]
    /\ last = [r \in Renders |-> NoLast]
    /\ heap = << >>
    /\ cfgs = << >>
    /\ lastAdd = NoAdd

ConcOutcomes == {Ret(V("string", "hi")), Pan(GenericError("invalid date"))}

NextConc ==
    \E r \in Renders :
        \/ \E c \in 1..Len(BuiltChain), ctx \in {"c1", "c2"} : Render(r, c, ctx)
        \/ EvalInput(r)
        \/ EvalParam(r)
        \/ \E o \in ConcOutcomes : Call(r, o)
        \/ Recover(r)

SpecConc == InitConc /\ [][NextConc]_vars

\* SpecConfig: Configs created by NewConfig and filters added to them.
NextConfig ==
    \/ NewConfig
    \/ \E i \in 1..MaxConfigs, name \in Names, fn \in ConfigFns : AddFilter(i, name, fn)

SpecConfig == Init /\ [][NextConfig]_vars

(***************************************************************************)
(* Properties.                                                             *)
(***************************************************************************)
Finished(l) == l.st \in {"returned", "panicked"}

ClosureAt(fn, i) == i < NumIn(fn) /\ isClosureInterfaceType(In(fn, i))

ValidFilterFn(fn) == IsFunc(fn) /\ NumIn(fn) >= 1 /\ NumOut(fn) \in {1, 2}

\* C1, as the claim states it: applying a filter whose name is not in the
\* registry does not fail while the filter expression is built; makeFilter
\* returns a closure and the failure is left to its invocation.
C1_UndefinedAtDispatch ==
    (lastBuild.name # "" /\ ~lastBuild.registered) =>
        (lastBuild.built /\ lastBuild.err = Nil)

\* C1, amended: makeFilter called with a name that is not in the registry
\* panics with UndefinedFilter(name) while the filter expression is built and
\* returns no closure; with a registered name it returns a closure.  So every
\* closure was built from a name that was registered then, and the function an
\* invocation dispatches to is the one found at the build.
C1_UndefinedAtBuild ==
    /\ lastBuild.name # "" =>
          IF lastBuild.registered
          THEN lastBuild.built /\ lastBuild.err = Nil
          ELSE ~lastBuild.built /\ lastBuild.err = UndefinedFilter(lastBuild.name)
    /\ \A i \in 1..Len(closures) : closures[i].bound # ""
    /\ \A r \in Renders :
          last[r].fn # "" => last[r].fn = closures[last[r].c].fr

C1_Witness ==
    /\ lastBuild.err = UndefinedFilter(lastBuild.name)
    /\ ~lastBuild.registered
    /\ closures # << >>

C3_ErrorsConvertedOrPropagated ==
    \A r \in Renders :
        LET l == last[r] IN
        /\ l.body.k \in {"panic", "err"} => (l.threw /\ l.raised = l.body.val)
        /\ (Finished(l) /\ l.threw) =>
              /\ l.st = "panicked"
              /\ l.out = IF l.raised.t = "GenericError"
                         THEN InterpreterError(l.raised.v)
                         ELSE l.raised

\* C4, as the claim states it: the argument in an expression-closure position
\* is the closure of the parameter's source text, parsed, and the context.
C4_ClosureFromSource ==
    \A r \in Renders :
        LET l == last[r] IN
        l.fn # "" =>
            \A i \in 1..Len(closures[l.c].params) :
                ClosureAt(l.fn, i) =>
                    l.args[i + 1] =
                        closure(Parse(Source(closures[l.c].params[i])).expr, cx[r])

\* C4, amended: for a parameter in an expression-closure position the closure
\* evaluates the parameter in the current context; the value must be a string
\* (a panic with a type assertion error otherwise) and that string, not the
\* parameter's source text, is parsed as an expression (a panic with the parse
\* error when it does not parse); the argument is the closure of the parsed
\* expression and the context of the invocation.  The argument in every other
\* position is the parameter's value.
C4_ClosureFromValue ==
    \A r \in Renders :
        LET l == last[r] IN
        /\ l.fn # "" =>
              \A i \in 1..Len(closures[l.c].params) :
                  LET v == Evaluate(closures[l.c].params[i], cx[r]) IN
                  IF ClosureAt(l.fn, i)
                  THEN /\ v.t = "string"
                       /\ Parse(v.v).ok
                       /\ l.args[i + 1] = closure(Parse(v.v).expr, cx[r])
                  ELSE l.args[i + 1] = v
        /\ (l.threw /\ l.fn = "" /\ l.ev # << >>) =>
              LET i == l.ev[Len(l.ev)]
                  v == Evaluate(closures[l.c].params[i], cx[r])
              IN /\ ClosureAt(closures[l.c].fr, i)
                 /\ l.raised = IF v.t # "string" THEN TypeAssertionError
                               ELSE ParseError(v.v)
                 /\ v.t = "string" => ~Parse(v.v).ok

C4_Witness ==
    \E r \in Renders :
        /\ last[r].fn # ""
        /\ \E i \in 1..Len(closures[last[r].c].params) :
              /\ ClosureAt(last[r].fn, i)
              /\ last[r].args[i + 1].t = "closure"
              /\ last[r].args[i + 1].e # Parse(Source(closures[last[r].c].params[i])).expr

\* C3, for the values recover() returns as non-nil: the same statement with
\* the nil panic value left aside.
C3_NonNilConvertedOrPropagated ==
    \A r \in Renders :
        LET l == last[r] IN
        /\ l.body.k \in {"panic", "err"} => (l.threw /\ l.raised = l.body.val)
        /\ (Finished(l) /\ l.threw /\ l.raised # Nil) =>
              /\ l.st = "panicked"
              /\ l.out = IF l.raised.t = "GenericError"
                         THEN InterpreterError(l.raised.v)
                         ELSE l.raised

\* C5: invoking closures, by any number of renders whose steps interleave,
\* leaves the filter registry as it was before the renders.
C5_RegistryReadOnly == filters = StandardFilters

C5_Witness ==
    \E r1, r2 \in Renders :
        /\ r1 # r2
        /\ Finished(last[r1])
        /\ res[r1].st \in {"returned", "panicked"}
        /\ res[r2].st = "running"
        /\ Len(stack[r2]) = 2
        /\ Top(r2).args # << >>

CountUp(n) == [j \in 1..n |-> j - 1]

C7_RegistersOnlyValid ==
    /\ lastDefine.name # "" => (lastDefine.panic = "" <=> ValidFilterFn(lastDefine.fn))
    /\ \A n \in DOMAIN filters : ValidFilterFn(filters[n])

C9_BytesToString ==
    \A r \in Renders :
        LET l == last[r] IN
        /\ (l.body.k = "ret" /\ NumOut(l.fn) >= 1) =>
              /\ l.st = "returned"
              /\ l.out = IF l.body.val.t = "[]byte"
                         THEN V("string", l.body.val.v)
                         ELSE l.body.val
        /\ (res[r].st = "returned" /\ l.st = "returned") => res[r].val = l.out

C9_Witness ==
    \E r \in Renders :
        /\ last[r].body = Ret(V("[]byte", "hi"))
        /\ last[r].out = V("string", "hi")
        /\ res[r] = [st |-> "returned", val |-> V("string", "hi")]

\* C10: a closure calls the function that was registered under its name when
\* makeFilter built it, whatever was registered under the name since; a closure
\* is built with the function registered last; every name once registered
\* stays registered, with the function registered last.
C10_BoundAtBuild ==
    /\ \A r \in Renders :
          last[r].fn # "" => last[r].fn = closures[last[r].c].bound
    /\ \A i \in 1..Len(closures) :
          /\ closures[i].fr = closures[i].bound
          /\ closures[i].name \in DOMAIN filters
    /\ \A n \in Names :
          /\ n \in DOMAIN filters <=> defined[n] # ""
          /\ n \in DOMAIN filters => filters[n] = defined[n]

C10_Witness ==
    \E r \in Renders :
        /\ last[r].fn # ""
        /\ last[r].called
        /\ last[r].fn # filters[closures[last[r].c].name]
        /\ \E i \in 1..Len(closures) :
              /\ closures[i].name = closures[last[r].c].name
              /\ closures[i].fr # last[r].fn

====
